---- MODULE Spec2Model ----
(***************************************************************************)
(* State-machine model of the two Pomodoro applications of the repository: *)
(* src/TUImato/tuimato.py (class TUIMato) and src/pomo/pomo.py (class      *)
(* Pomo).  The variable `variant` says which of the two programs runs; it  *)
(* is chosen at start-up and never changes.                                *)
(*                                                                         *)
(* Time is counted in ticks of 1/UnitsPerSecond second, so a float number  *)
(* of seconds s is the integer s * UnitsPerSecond.  SETTINGS and `time`    *)
(* are kept in that unit.                                                  *)
(*                                                                         *)
(* Framework behaviour the handlers rely on (Textual):                     *)
(*  - set_interval(..., pause=True) / Timer.pause() / Timer.resume(): the  *)
(*    callback update_time is invoked only while the timer is active;      *)
(*  - App.query / App.query_one search the currently active screen only,   *)
(*    so the task checkboxes are found only while the dashboard screen is  *)
(*    the active one (no other mode, no modal on top);                     *)
(*  - a ModalScreen hides the application's key bindings and the widgets   *)
(*    of the screen below it;                                              *)
(*  - an exception that leaves a handler uncaught ends the application;    *)
(*  - Screen.dismiss(result) hands the result to the callback of            *)
(*    push_screen later, from the application's message loop, while the    *)
(*    interval timers go on firing;                                        *)
(*  - Input(max_length=n) takes no character beyond the n-th, and an Input *)
(*    without validators submits any value, the empty one included.        *)
(***************************************************************************)
EXTENDS Integers, Sequences, FiniteSets, TLC

\* ---------------------------------------------------------------- bounds
\* resolution of the clock: units per second
UnitsPerSecond == 2
\* largest clock advance between two timer intervals, in units
MaxDelta == 2
\* largest clock time a countdown is followed after its start()
MaxSum == 4
\* largest clock time that passes while the timer is paused
MaxAge == 2
\* largest number of tasks added (specification SpecTasks)
MaxTasks == 3
\* largest number of tasks added (specification Spec)
TimerTasks == 1

\* largest number of tasks added (specification SpecExport)
ExportTasks == 2

\* SETTINGS['minutes'] at start-up, in minutes
DefaultMinutes == 25

\* max_length of the Input of TaskModal
MaxLength == 120

Variants == {"tuimato", "pomo"}
Modes == {"dashboard", "settings", "help"}
Fields == {"hours", "minutes", "seconds"}
\* texts typed into a settings field
Texts == {"0", "2", "-1", "abc"}
\* texts typed into the task prompt (specification SpecTasks)
Names == {"X", "Y"}
\* texts typed into the task prompt (specification Spec)
TimerNames == {"X"}
\* settings fields submitted and screens visited in specification Spec
TimerFields == {"minutes", "seconds"}
TimerModes == {"dashboard", "settings"}
\* settings submissions of specification SpecTasks
TaskFields == {"minutes"}
TaskTexts == {"0", "abc"}
Deltas == 1..MaxDelta

\* the text of n characters c
RECURSIVE Repeat(_, _)
Repeat(c, n) == IF n = 0 THEN "" ELSE c \o Repeat(c, n - 1)

\* texts typed into the task prompt (specification SpecExport): the empty
\* one, a short one and one of MaxLength + 1 characters
PromptTexts == {"", "X", Repeat("a", MaxLength + 1)}
\* where action_export_task meets an OSError: nowhere, in open(), in
\* f.write(), or when the with block closes (flushes) the file
ExportOutcomes == {"ok", "open", "write", "close"}

VARIABLES
    variant,      \* which program runs
    mode,         \* App.current_mode
    modal,        \* "closed" | "open" | "dismissing" | "popped" (TaskModal)
    crashed,      \* an exception left a handler uncaught
    SETTINGS,     \* App.SETTINGS, values in units
    time,         \* TimeDisplay.time, in units
    running,      \* TimeDisplay.update_timer is active (not paused)
    delta_age,    \* monotonic() - TimeDisplay.delta_time, in units
    TASK_LIST,    \* App.TASK_LIST: sequence of task names
    boxes,        \* the Checkbox widgets in #task_container, in DOM order
    TASK_COUNTER, \* Pomo.TASK_COUNTER (unused by TUIMato)
    last,         \* the handler that ran last
    arg,          \* its input: the text submitted, the outcome of the export
    file,         \* the file pomodoro_task_list
    notified,     \* severities of the notices of the last action_export_task
    start_D,      \* history: duration configured at the last start()
    sum_d,        \* history: clock time passed since the last start()
    clean,        \* history: only ticks (and waiting) since the last start()
    completions,  \* history: finish_task calls made by update_time since start()
    pausedAt      \* history: <<t>> when stop() paused an unfinished countdown at
                  \* t and nothing but waiting and at most one start() followed

vars == <<variant, mode, modal, crashed, SETTINGS, time, running, delta_age,
          TASK_LIST, boxes, TASK_COUNTER, last, arg, file, notified,
          start_D, sum_d, clean, completions, pausedAt>>

timerVars == <<time, running, delta_age>>
taskVars == <<TASK_LIST, boxes, TASK_COUNTER>>
histVars == <<start_D, sum_d, clean, completions, pausedAt>>
exportVars == <<file, notified>>

NoArg == <<>>

\* ------------------------------------------------------- pure functions

\* float(text): the texts float() accepts
IsFloat(text) == text \in {"0", "2", "-1"}

\* float(text) in units, for a text float() accepts
FloatOf(text) ==
    CASE text = "0" -> 0
      [] text = "2" -> 2 * UnitsPerSecond
      [] text = "-1" -> -1 * UnitsPerSecond

\* hours * 3600 + minutes * 60 + seconds
Duration(S) == S["hours"] * 3600 + S["minutes"] * 60 + S["seconds"]

\* int(x) of a float x: truncation toward zero, result in whole seconds
PyInt(t) == IF t >= 0 THEN t \div UnitsPerSecond ELSE -((-t) \div UnitsPerSecond)

\* update_time testing self.time < 0 instead
ExpiredBelowZero(t) == t < 0

\* the test of update_time: int(self.time) <= 0
Expired(t) == PyInt(t) <= 0

\* the widgets App.query sees: those of the active screen
Visible(m, md, bs) == IF m = "dashboard" /\ md \in {"closed", "popped"} THEN bs ELSE <<>>

\* index of the first widget with this id, 0 if there is none (NoMatches)
RECURSIVE FindFrom(_, _, _)
FindFrom(bs, id, i) ==
    IF i > Len(bs) THEN 0
    ELSE IF bs[i].id = id THEN i
    ELSE FindFrom(bs, id, i + 1)

QueryOne(bs, id) == FindFrom(bs, id, 1)

\* first task number of the loop of finish_task
FirstTaskNumber(v) == IF v = "tuimato" THEN 1 ELSE 0

\* the loop of finish_task from task_number n up to hi, on the visible widgets
RECURSIVE FinishLoop(_, _, _)
FinishLoop(bs, n, hi) ==
    IF n > hi THEN bs
    ELSE LET i == QueryOne(bs, n) IN
         IF i = 0 THEN bs
         ELSE IF bs[i].value THEN FinishLoop(bs, n + 1, hi)
         ELSE [bs EXCEPT ![i].value = TRUE]

\* finish_task: the widgets after the call
FinishTask(v, m, md, tl, bs) ==
    LET vis == Visible(m, md, bs) IN
    IF vis = <<>> THEN bs
    ELSE FinishLoop(vis, FirstTaskNumber(v), Len(tl))

\* index of the last widget with this id, 0 if the query is empty
RECURSIVE FindLast(_, _, _)
FindLast(bs, id, i) ==
    IF i = 0 THEN 0
    ELSE IF bs[i].id = id THEN i
    ELSE FindLast(bs, id, i - 1)

\* the id action_remove_task queries for
RemoveId(v, tl, c) == IF v = "tuimato" THEN Len(tl) ELSE c

\* ids counted from 0 in tuimato.py
MountIdZeroBased(v, tl, c) == IF v = "tuimato" THEN Len(tl) - 1 ELSE c

\* the id obtain_task_input gives the new Checkbox
MountId(v, tl, c) == IF v = "tuimato" THEN Len(tl) ELSE c

\* a sequence without its i-th element
RemoveAt(s, i) == [k \in 1..(Len(s) - 1) |-> IF k < i THEN s[k] ELSE s[k + 1]]

\* the value of the Input after text was typed into the empty field: it takes
\* no character beyond max_length
PromptValue(text) ==
    IF Len(text) <= MaxLength THEN text ELSE SubSeq(text, 1, MaxLength)

\* json.dumps(self.TASK_LIST): an array of objects {"task_name": name}
JsonDumps(tl) == [i \in 1..Len(tl) |-> [task_name |-> tl[i]]]

\* a file opened with mode 'a'
WriteAppend(old, new) == old \o new

\* the content of a file opened with mode 'w' (old: its content before) after
\* new was written and the file closed
WriteTruncate(old, new) == new

\* an update_time that subtracts nothing
ElapsedNone(age, d) == 0

\* current_time - self.delta_time in update_time, the interval elapsing d
\* units after the clock was age units past delta_time
Elapsed(age, d) == age + d

\* an interval timer that ignores pause()
TimerActiveAlways(r) == TRUE

\* whether the interval timer invokes its callback
TimerActive(r) == r

\* self.time as start() leaves it (t: its value before)
StartTime(S, t) == Duration(S)

\* self.time as reset() leaves it (t: its value before)
ResetTime(S, t) == Duration(S)

\* a reset() that also pauses the timer
ResetActivePauses(r) == FALSE

\* whether update_timer is active after reset() (r: whether it was before)
ResetActive(r) == r

\* ------------------------------------------------------------------ Init

Init ==
    /\ variant \in Variants
    /\ mode = "dashboard"
    /\ modal = "closed"
    /\ crashed = FALSE
    /\ SETTINGS = [hours |-> 0, minutes |-> DefaultMinutes * UnitsPerSecond,
                   seconds |-> 0]
    /\ time = DefaultMinutes * UnitsPerSecond * 60
    /\ running = FALSE
    /\ delta_age = 0
    /\ TASK_LIST = <<>>
    /\ boxes = <<>>
    /\ TASK_COUNTER = 0
    /\ last = "init"
    /\ arg = NoArg
    /\ file = [state |-> "absent", data |-> <<>>]
    /\ notified = <<>>
    /\ start_D = 0
    /\ sum_d = 0
    /\ clean = FALSE
    /\ completions = 0
    /\ pausedAt = <<>>

\* the dashboard is shown and no modal covers it
OnDashboard == ~crashed /\ mode = "dashboard" /\ modal = "closed"

\* the application's key bindings are live (a modal screen hides them)
KeysLive == ~crashed /\ modal = "closed"

\* a handler other than start, stop and update_time ran: the history of the
\* countdown is dropped; sum_d goes on bounding a countdown that still runs
Forget ==
    /\ start_D' = 0
    /\ clean' = FALSE
    /\ completions' = 0
    /\ pausedAt' = <<>>
    /\ sum_d' = IF running THEN sum_d ELSE 0

\* --------------------------------------------------------------- actions

\* Button "start": TimeDisplay.start
Start ==
    /\ OnDashboard
    /\ time' = StartTime(SETTINGS, time)
    /\ delta_age' = IF variant = "tuimato" THEN 0 ELSE delta_age
    /\ running' = TRUE
    /\ last' = "start"
    /\ arg' = NoArg
    /\ start_D' = Duration(SETTINGS)
    /\ sum_d' = 0
    /\ clean' = TRUE
    /\ completions' = 0
    /\ pausedAt' = IF running THEN <<>> ELSE pausedAt
    /\ UNCHANGED <<exportVars, variant, mode, modal, crashed, SETTINGS, taskVars>>

\* Button "stop": TimeDisplay.stop
Stop ==
    /\ OnDashboard
    /\ running' = FALSE
    /\ last' = "stop"
    /\ arg' = NoArg
    /\ start_D' = 0
    /\ sum_d' = 0
    /\ clean' = FALSE
    /\ completions' = 0
    /\ pausedAt' = IF running
                   THEN (IF clean /\ sum_d > 0 THEN <<time>> ELSE <<>>)
                   ELSE pausedAt
    /\ UNCHANGED <<exportVars, variant, mode, modal, crashed, SETTINGS, time, delta_age,
                   taskVars>>

\* Button "reset": TimeDisplay.reset
Reset ==
    /\ OnDashboard
    /\ time' = ResetTime(SETTINGS, time)
    /\ running' = ResetActive(running)
    /\ last' = "reset"
    /\ arg' = NoArg
    /\ Forget
    /\ UNCHANGED <<exportVars, variant, mode, modal, crashed, SETTINGS, delta_age, taskVars>>

\* TimeDisplay.update_time, called d units after the previous interval
UpdateTime(d) ==
    /\ LET t1 == time - Elapsed(delta_age, d) IN
         IF Expired(t1)
         THEN /\ time' = 0
              /\ boxes' = FinishTask(variant, mode, modal, TASK_LIST, boxes)
              /\ running' = FALSE
         ELSE /\ time' = t1
              /\ UNCHANGED <<boxes, running>>
    /\ delta_age' = 0

\* The interval of update_timer elapses d units after the previous one while
\* the timer is active; the countdown is followed for MaxSum units
Tick(d) ==
    /\ ~crashed
    /\ TimerActive(running)
    /\ sum_d + d <= MaxSum
    /\ UpdateTime(d)
    /\ completions' = IF Expired(time - Elapsed(delta_age, d))
                      THEN completions + 1 ELSE completions
    /\ sum_d' = sum_d + d
    /\ pausedAt' = <<>>
    /\ last' = "tick"
    /\ arg' = NoArg
    /\ UNCHANGED <<exportVars, variant, mode, modal, crashed, SETTINGS, TASK_LIST,
                   TASK_COUNTER, start_D, clean>>

\* The same interval with the countdown followed to its end and no history
\* kept
LiveTick(d) ==
    /\ ~crashed
    /\ TimerActive(running)
    /\ UpdateTime(d)
    /\ last' = "tick"
    /\ arg' = NoArg
    /\ start_D' = 0
    /\ sum_d' = 0
    /\ clean' = FALSE
    /\ completions' = 0
    /\ pausedAt' = <<>>
    /\ UNCHANGED <<exportVars, variant, mode, modal, crashed, SETTINGS, TASK_LIST,
                   TASK_COUNTER>>

\* d units of clock time pass while update_timer is paused: no callback runs
Pass(d) ==
    /\ ~crashed
    /\ ~TimerActive(running)
    /\ delta_age + d <= MaxAge
    /\ delta_age' = delta_age + d
    /\ last' = "pass"
    /\ arg' = NoArg
    /\ UNCHANGED <<exportVars, variant, mode, modal, crashed, SETTINGS, time, running,
                   taskVars, histVars>>

\* Keys d / s / h: switch_mode
SwitchMode(m) ==
    /\ KeysLive
    /\ mode # m
    /\ mode' = m
    /\ last' = "mode"
    /\ arg' = NoArg
    /\ Forget
    /\ UNCHANGED <<exportVars, variant, modal, crashed, SETTINGS, timerVars, taskVars>>

\* SettingsScreen.on_input_submitted
SubmitSetting(field, text) ==
    /\ ~crashed
    /\ mode = "settings"
    /\ modal = "closed"
    /\ IF IsFloat(text)
       THEN /\ SETTINGS' = [SETTINGS EXCEPT ![field] = FloatOf(text)]
            /\ mode' = "dashboard"
            /\ UNCHANGED crashed
       ELSE /\ crashed' = TRUE
            /\ UNCHANGED <<SETTINGS, mode>>
    /\ last' = "submit"
    /\ arg' = <<field, text>>
    /\ Forget
    /\ UNCHANGED <<exportVars, variant, modal, timerVars, taskVars>>

\* Key a: action_add_task up to push_screen(TaskModal(), obtain_task_input);
\* limit bounds the number of tasks
AddTask(limit) ==
    /\ KeysLive
    /\ Len(TASK_LIST) < limit
    /\ mode' = "dashboard"
    /\ modal' = "open"
    /\ last' = "add"
    /\ arg' = NoArg
    /\ Forget
    /\ UNCHANGED <<exportVars, variant, crashed, SETTINGS, timerVars, taskVars>>

\* TaskModal.on_input_submitted after name was typed: the record is appended and the screen is
\* dismissed; the callback obtain_task_input runs later, with the modal
\* either still on the stack or already popped
SubmitName(name) ==
    /\ ~crashed
    /\ modal = "open"
    /\ TASK_LIST' = Append(TASK_LIST, PromptValue(name))
    /\ modal' \in {"dismissing", "popped"}
    /\ last' = "name"
    /\ arg' = <<name>>
    /\ Forget
    /\ UNCHANGED <<exportVars, variant, mode, crashed, SETTINGS, timerVars, boxes,
                   TASK_COUNTER>>

\* obtain_task_input(task_name), task_name being the value just submitted
MountTask ==
    /\ ~crashed
    /\ modal \in {"dismissing", "popped"}
    /\ LET id == MountId(variant, TASK_LIST, TASK_COUNTER) IN
         IF QueryOne(boxes, id) # 0
         THEN /\ crashed' = TRUE
              /\ UNCHANGED <<boxes, TASK_COUNTER>>
         ELSE /\ boxes' = Append(boxes, [id |-> id,
                                         label |-> TASK_LIST[Len(TASK_LIST)],
                                         value |-> FALSE])
              /\ TASK_COUNTER' = IF variant = "pomo" THEN TASK_COUNTER + 1
                                                     ELSE TASK_COUNTER
              /\ UNCHANGED crashed
    /\ modal' = "closed"
    /\ last' = "mount"
    /\ arg' = NoArg
    /\ Forget
    /\ UNCHANGED <<exportVars, variant, mode, SETTINGS, timerVars, TASK_LIST>>

\* Key r: action_remove_task
RemoveTask ==
    /\ KeysLive
    /\ LET vis == Visible(mode, modal, boxes)
           i == FindLast(vis, RemoveId(variant, TASK_LIST, TASK_COUNTER), Len(vis))
       IN IF i = 0
          THEN UNCHANGED taskVars
          ELSE /\ boxes' = RemoveAt(boxes, i)
               /\ IF variant = "tuimato"
                  THEN /\ TASK_LIST' = SubSeq(TASK_LIST, 1, Len(TASK_LIST) - 1)
                       /\ UNCHANGED TASK_COUNTER
                  ELSE /\ TASK_COUNTER' = TASK_COUNTER - 1
                       /\ UNCHANGED TASK_LIST
    /\ last' = "remove"
    /\ arg' = NoArg
    /\ Forget
    /\ UNCHANGED <<exportVars, variant, mode, modal, crashed, SETTINGS, timerVars>>

\* Key f: action_finish_task
FinishKey ==
    /\ KeysLive
    /\ boxes' = FinishTask(variant, mode, modal, TASK_LIST, boxes)
    /\ last' = "finish"
    /\ arg' = NoArg
    /\ Forget
    /\ UNCHANGED <<exportVars, variant, mode, modal, crashed, SETTINGS, timerVars,
                   TASK_LIST, TASK_COUNTER>>

\* The user clicks the i-th Checkbox of the task container
Toggle(i) ==
    /\ OnDashboard
    /\ i \in 1..Len(boxes)
    /\ boxes' = [boxes EXCEPT ![i].value = ~boxes[i].value]
    /\ last' = "toggle"
    /\ arg' = NoArg
    /\ Forget
    /\ UNCHANGED <<exportVars, variant, mode, modal, crashed, SETTINGS, timerVars,
                   TASK_LIST, TASK_COUNTER>>

\* Key e: action_export_task; outcome says where an OSError is raised.
\* open(..., 'w') truncates the file; an error in write() or in the flush at
\* close leaves it without the complete text.  tuimato.py notifies success
\* inside the with block, before the file is closed, and catches every
\* exception; pomo.py notifies nothing and catches nothing.
Export(outcome) ==
    /\ KeysLive
    /\ file' = CASE outcome = "ok" ->
                      [state |-> "written",
                       data |-> WriteTruncate(file.data, JsonDumps(TASK_LIST))]
                  [] outcome = "open" -> file
                  [] OTHER -> [state |-> "partial", data |-> <<>>]
    /\ IF variant = "tuimato"
       THEN /\ notified' = CASE outcome = "ok" -> <<"information">>
                              [] outcome = "close" -> <<"information", "error">>
                              [] OTHER -> <<"error">>
            /\ UNCHANGED crashed
       ELSE /\ notified' = <<>>
            /\ crashed' = (outcome # "ok")
    /\ last' = "export"
    /\ arg' = <<outcome>>
    /\ Forget
    /\ UNCHANGED <<variant, mode, modal, SETTINGS, timerVars, taskVars>>

\* ------------------------------------------------------- specifications

\* The timer with every settings input and at most TimerTasks tasks
Next ==
    \/ Start
    \/ Stop
    \/ Reset
    \/ \E d \in Deltas : Tick(d)
    \/ \E d \in Deltas : Pass(d)
    \/ \E m \in TimerModes : SwitchMode(m)
    \/ \E f \in TimerFields, t \in Texts : SubmitSetting(f, t)
    \/ AddTask(TimerTasks)
    \/ \E n \in TimerNames : SubmitName(n)
    \/ MountTask
    \/ RemoveTask
    \/ FinishKey
    \/ \E i \in 1..TimerTasks : Toggle(i)

Spec == Init /\ [][Next]_vars

\* The task list with up to MaxTasks tasks and the settings inputs TaskTexts
NextTasks ==
    \/ Start
    \/ Stop
    \/ Reset
    \/ \E d \in Deltas : Tick(d)
    \/ \E d \in Deltas : Pass(d)
    \/ \E m \in Modes : SwitchMode(m)
    \/ \E f \in TaskFields, t \in TaskTexts : SubmitSetting(f, t)
    \/ AddTask(MaxTasks)
    \/ \E n \in Names : SubmitName(n)
    \/ MountTask
    \/ RemoveTask
    \/ FinishKey
    \/ \E i \in 1..MaxTasks : Toggle(i)

SpecTasks == Init /\ [][NextTasks]_vars

\* The task prompt and the export with up to ExportTasks tasks
NextExport ==
    \/ Start
    \/ Stop
    \/ \E m \in Modes : SwitchMode(m)
    \/ AddTask(ExportTasks)
    \/ \E n \in PromptTexts : SubmitName(n)
    \/ MountTask
    \/ RemoveTask
    \/ FinishKey
    \/ \E o \in ExportOutcomes : Export(o)

SpecExport == Init /\ [][NextExport]_vars

\* The countdown followed to its end: the settings are changed and the timer
\* is started only while it does not run, and once it runs nothing but the
\* intervals of update_timer happens
NextLive ==
    \/ ~running /\ Start
    \/ ~running /\ \E d \in Deltas : Pass(d)
    \/ ~running /\ \E m \in TimerModes : SwitchMode(m)
    \/ ~running /\ \E f \in TimerFields, t \in Texts : SubmitSetting(f, t)
    \/ \E d \in Deltas : LiveTick(d)

\* set_interval(1 / 60, ...): while the timer is active, its interval keeps
\* elapsing
SpecLive == Init /\ [][NextLive]_vars /\ WF_vars(\E d \in Deltas : LiveTick(d))

\* ----------------------------------------------------------------- claims

\* the duration the settings configure, written out
Configured == 3600 * SETTINGS["hours"] + 60 * SETTINGS["minutes"] + SETTINGS["seconds"]

\* the settings texts that denote a non-negative number
NonNegativeNumber(text) == text \in {"0", "2"}

\* index of the first widget whose value is FALSE, 0 if there is none
RECURSIVE FirstPending(_, _)
FirstPending(bs, i) ==
    IF i > Len(bs) THEN 0
    ELSE IF ~bs[i].value THEN i
    ELSE FirstPending(bs, i + 1)

\* the task widgets with the first pending one, if any, marked done
MarkFirstPending(bs) ==
    LET i == FirstPending(bs, 1) IN
    IF i = 0 THEN bs ELSE [bs EXCEPT ![i].value = TRUE]

\* C1: in tuimato.py, after start() with duration D and ticks whose deltas sum
\* to S < D, the remaining time is D - S, the timer still runs and no
\* completion was signalled.
TickCorrectness ==
    (variant = "tuimato" /\ clean /\ sum_d >= 1 /\ sum_d < start_D)
        => (time = start_D - sum_d /\ running /\ completions = 0)

\* C2: once the deltas of the ticks since start() sum to at least the
\* configured duration, the remaining time is exactly 0, the timer does not
\* run and finish_task was invoked by the timer exactly once; never more than
\* once per countdown.
CompletionClamp ==
    clean => /\ completions <= 1
             /\ (sum_d >= 1 /\ sum_d >= start_D)
                    => (time = 0 /\ ~running /\ completions = 1)

\* C2 witness: a countdown of positive duration has run to its end
CompletionClampWitness ==
    clean /\ last = "tick" /\ start_D > 0 /\ sum_d >= start_D /\ completions = 1

\* C3: the tick that completes the countdown marks exactly the first pending
\* task done (none if none is pending); any other tick changes no done flag.
TickDrivesTasks ==
    [][last' = "tick" =>
          boxes' = IF running /\ ~running' THEN MarkFirstPending(boxes) ELSE boxes]_vars

\* C4: after start(); tick; stop(); waiting; start() the remaining time is the
\* value it had at stop(), not the full configured duration.
ResumeKeepsRemaining ==
    (last = "start" /\ pausedAt # <<>>) => time = pausedAt[1]

\* C5: start() pressed while the countdown runs leaves the remaining time and
\* the running flag unchanged.
StartOnlyWhenStopped ==
    [][(running /\ last' = "start") => (time' = time /\ running' = running)]_vars

\* C6: stop() sets running to false and keeps the remaining time; while the
\* timer is not running, time that passes changes neither the remaining time
\* nor any task.
StopIsPause ==
    [][/\ last' = "stop" => (~running' /\ time' = time)
       /\ (~running /\ last' \in {"tick", "pass"})
             => (time' = time /\ ~running' /\ boxes' = boxes
                 /\ TASK_LIST' = TASK_LIST)]_vars

\* C6 witness: time has passed while a countdown was paused by stop()
StopIsPauseWitness ==
    last = "pass" /\ ~running /\ pausedAt # <<>> /\ delta_age > 0

\* C7: each reset() leaves the remaining time equal to the duration the
\* current settings configure and leaves the running flag as it was.
ResetIdempotent ==
    [][last' = "reset" => (time' = Configured' /\ running' = running)]_vars

\* C7 witness: reset() was pressed during a countdown that had ticked
ResetWitness ==
    last = "reset" /\ running /\ sum_d > 0 /\ time = Configured

\* C8: the remaining time is never negative.
RemainingNonNegative == time >= 0

\* C9: a settings submission never crashes the application, leaves SETTINGS
\* unchanged when the text is not a non-negative number, and stores only
\* non-negative values.
InvalidSettingsRejected ==
    [][last' = "submit" =>
          /\ ~crashed'
          /\ ~NonNegativeNumber(arg'[2]) => SETTINGS' = SETTINGS
          /\ \A f \in Fields : SETTINGS'[f] >= 0]_vars

\* C10: finish_task marks the first pending task in insertion order done and
\* changes nothing else; with no pending task it changes nothing; it never
\* raises.
FinishNextOrdering ==
    [][last' = "finish" =>
          (boxes' = MarkFirstPending(boxes) /\ TASK_LIST' = TASK_LIST
           /\ ~crashed')]_vars

\* a sequence without its last element
Front(s) == SubSeq(s, 1, Len(s) - 1)

\* C11: in tuimato.py, remove_task on a non-empty list removes exactly the
\* most recently added task still present, checkbox and TASK_LIST record,
\* and leaves the earlier tasks and their done flags unchanged; on an empty
\* list it changes nothing; it never crashes.
RemoveLastTuimato ==
    [][(variant = "tuimato" /\ last' = "remove") =>
          /\ ~crashed'
          /\ IF TASK_LIST = <<>>
             THEN TASK_LIST' = TASK_LIST /\ boxes' = boxes
             ELSE TASK_LIST' = Front(TASK_LIST) /\ boxes' = Front(boxes)]_vars

\* C12: in pomo.py, remove_task with at least one task present removes the
\* most recently added task from the display and from the task list.
RemoveLastPomo ==
    [][(variant = "pomo" /\ last' = "remove" /\ boxes # <<>>) =>
          (boxes' = Front(boxes) /\ TASK_LIST' = Front(TASK_LIST))]_vars

\* C14: in tuimato.py no two tasks present share an id: with n tasks present
\* the ids are task-1 .. task-n in insertion order, and once the prompt is
\* closed the task list holds one record per checkbox.
TaskIdsUnique ==
    variant = "tuimato" =>
        /\ \A i \in 1..Len(boxes) : boxes[i].id = i
        /\ \A i, j \in 1..Len(boxes) : boxes[i].id = boxes[j].id => i = j
        /\ (modal = "closed" /\ ~crashed) => Len(TASK_LIST) = Len(boxes)

\* C14 witness: a task was removed on the dashboard and others stay
TaskIdsWitness ==
    /\ variant = "tuimato" /\ last = "remove" /\ mode = "dashboard"
    /\ Len(boxes) >= 1 /\ Len(boxes) < MaxTasks

\* C18: in pomo.py the ticks after start() subtract only the time that passed
\* since that start(): while the countdown runs, the remaining time is the
\* configured duration minus the clock time since start().
ElapsedSinceStart ==
    (variant = "pomo" /\ clean /\ running /\ sum_d >= 1)
        => time = start_D - sum_d

\* C20: in tuimato.py no tick and no key action runs in a state where
\* TASK_LIST has a record whose checkbox is not mounted yet.
NoTornTaskList ==
    [][(variant = "tuimato"
        /\ last' \in {"tick", "mode", "add", "remove", "finish"})
          => Len(TASK_LIST) = Len(boxes)]_vars

\* C13: submitting an empty task name, or one longer than 120 characters,
\* changes neither TASK_LIST nor the displayed tasks and leaves the prompt
\* open; a name of 1 to 120 characters is appended as it was typed.
TaskNameBounds ==
    [][last' = "name" =>
          IF Len(arg'[1]) = 0 \/ Len(arg'[1]) > 120
          THEN TASK_LIST' = TASK_LIST /\ boxes' = boxes /\ modal' = "open"
          ELSE TASK_LIST' = Append(TASK_LIST, arg'[1])]_vars

\* the names of the displayed tasks as a JSON array, in insertion order
DisplayedJson(bs) == [i \in 1..Len(bs) |-> [task_name |-> bs[i].label]]

\* C15: in both variants a successful export leaves in the file exactly one
\* {"task_name": name} object per task currently displayed, in insertion
\* order, whatever an earlier export wrote.
ExportContent ==
    [][(last' = "export" /\ arg' = <<"ok">>) =>
          file' = [state |-> "written", data |-> DisplayedJson(boxes)]]_vars

\* C15 witness: an export succeeded with two tasks of different names
\* displayed
ExportContentWitness ==
    /\ last = "export" /\ arg = <<"ok">> /\ file.state = "written"
    /\ Len(boxes) = 2 /\ boxes[1].label # boxes[2].label
    /\ Len(file.data) = 2

\* C16: in tuimato.py an export never crashes and changes neither the task
\* list nor the timer; when it fails the user gets an error notice and no
\* success notice; when it succeeds the user gets the success notice only.
ExportFailureTuimato ==
    [][(variant = "tuimato" /\ last' = "export") =>
          /\ ~crashed'
          /\ UNCHANGED <<TASK_LIST, boxes, time, running>>
          /\ notified' = IF arg' = <<"ok">> THEN <<"information">>
                                            ELSE <<"error">>]_vars

\* C17: in pomo.py a failed export does not crash the application and the
\* failure is shown to the user as a notice.
ExportFailurePomo ==
    [][(variant = "pomo" /\ last' = "export" /\ arg' # <<"ok">>) =>
          (~crashed' /\ notified' # <<>>)]_vars

\* C19: in both variants, when the timer runs, ticks of positive delta keep
\* occurring and no start, reset or settings action intervenes, the remaining
\* time eventually is 0 and the timer does not run.
CountdownLiveness == running ~> (time = 0 /\ ~running)

\* C19 witness: a countdown of positive duration was ticked to its end
CountdownLivenessWitness ==
    last = "tick" /\ time = 0 /\ ~running /\ Duration(SETTINGS) > 0

====
